---- MODULE Spec2Model ----
(***************************************************************************)
(* A model of src/eink_client/main.py: the MicroPython e-ink client that   *)
(* joins a WiFi network once and then polls an HTTP endpoint forever       *)
(* (battery read -> GET -> render -> sleep).                               *)
(*                                                                         *)
(* Strings that the code concatenates or a server would parse (the request *)
(* URL) are sequences of one-character strings.  A Python dict is a        *)
(* function whose DOMAIN is the set of keys present; a value that may be   *)
(* None is a sequence of length 0 (None) or 1 (the value).                 *)
(***************************************************************************)
EXTENDS Integers, Sequences, FiniteSets, TLC

\* ------------------------------------------------------------- bounds
\* Longest task list a modelled server returns.
MaxTasks == 2
\* The iteration counter saturates here (the loop itself is unbounded).
MaxIter == 2
\* The association-poll counter saturates here (the wait is unbounded).
MaxPolls == 2

\* -------------------------------------------------- program constants
API_URL == <<"h", "t", "t", "p", ":", "/", "/", "Y", "O", "U", "R", "_", "L", "O", "C", "A", "L", "_", "I", "P", ":", "8", "0", "8", "0", "/", "a", "p", "i", "/", "e", "i", "n", "k", "/", "r", "e", "l", "e", "v", "a", "n", "t">>
DEVICE_TOKEN == <<"y", "o", "u", "r", "_", "s", "e", "c", "u", "r", "e", "_", "d", "e", "v", "i", "c", "e", "_", "t", "o", "k", "e", "n">>
\* The value get_battery() returns.
BATTERY_STUB == 85
\* The fallback of data.get('config', {}).get('refresh_interval', 1800).
DEFAULT_REFRESH == 1800
\* The only status fetch_data accepts.
HTTP_OK == 200

\* ------------------------------------------------------------ helpers
None == <<>>
Some(v) == <<v>>
EmptyDict == <<>>
Has(d, k) == k \in DOMAIN d
Sat(n, max) == IF n < max THEN n + 1 ELSE max

SeqsUpTo(S, n) == UNION {[1..k -> S] : k \in 0..n}

\* str(n) for n >= 0, as Python's f-string formats an int: decimal digits,
\* most significant first, no padding.
Digit(d) == CASE d = 0 -> "0" [] d = 1 -> "1" [] d = 2 -> "2" [] d = 3 -> "3"
              [] d = 4 -> "4" [] d = 5 -> "5" [] d = 6 -> "6" [] d = 7 -> "7"
              [] d = 8 -> "8" [] d = 9 -> "9"

RECURSIVE Str(_)
Str(n) == IF n < 10 THEN <<Digit(n)>> ELSE Str(n \div 10) \o <<Digit(n % 10)>>

\* ---------------------------------------------- what a server can send
\* JSON objects of the documented shape.  Each value has the documented type
\* (a mapping, a list of mappings, text, a whole number of seconds); what
\* varies is which keys are present, down to the single task.
Workspaces == {"W"}
\* A task as the server may send it: complete, or with a key missing.
TaskDicts ==
    {[priority |-> "high", title |-> "T1"], [priority |-> "low", title |-> "T2"],
     [priority |-> "high"], [title |-> "T1"]}
TaskLists == SeqsUpTo(TaskDicts, MaxTasks)
DataDicts ==
    {EmptyDict}
    \cup {[workspace |-> w] : w \in Workspaces}
    \cup {[tasks |-> ts] : ts \in TaskLists}
    \cup {[workspace |-> w, tasks |-> ts] : w \in Workspaces, ts \in TaskLists}
Intervals == {0, 60, 86400}
ConfigDicts == {EmptyDict} \cup {[refresh_interval |-> i] : i \in Intervals}
\* Every JSON object of the documented shape with any subset of its keys.
Payloads ==
    {EmptyDict}
    \cup {[data |-> d] : d \in DataDicts}
    \cup {[config |-> c] : c \in ConfigDicts}
    \cup {[data |-> d, config |-> c] : d \in DataDicts, c \in ConfigDicts}

\* A response body: text that response.json() parses to a payload, or text
\* on which it raises.
Bodies == {[parses |-> FALSE]} \cup {[parses |-> TRUE, json |-> p] : p \in Payloads}
ErrorBodies == {[parses |-> FALSE], [parses |-> TRUE, json |-> [config |-> [refresh_interval |-> 60]]]}
ErrorStatuses == {404, 500}
\* What urequests.get can do: raise (DNS, connect, read), or return a response.
Responses ==
    {[kind |-> "raise"]}
    \cup {[kind |-> "http", status |-> HTTP_OK, body |-> b] : b \in Bodies}
    \cup {[kind |-> "http", status |-> s, body |-> b] : s \in ErrorStatuses, b \in ErrorBodies}
NoResponse == [kind |-> "none"]

\* ------------------------------------------------------ pure functions
\* get_battery(): the placeholder's constant.
get_battery == BATTERY_STUB

\* The URL built from the battery stub instead of from the parameter.
request_url_stub(battery_level) ==
    API_URL
    \o <<"?", "t", "o", "k", "e", "n", "=">> \o DEVICE_TOKEN
    \o <<"&", "b", "a", "t", "=">> \o Str(BATTERY_STUB)
    \o <<"&", "r", "e", "s", "=", "8", "0", "0", "x", "6", "0", "0">>

\* The string fetch_data hands to urequests.get: API_URL + params.
request_url(battery_level) ==
    API_URL
    \o <<"?", "t", "o", "k", "e", "n", "=">> \o DEVICE_TOKEN
    \o <<"&", "b", "a", "t", "=">> \o Str(battery_level)
    \o <<"&", "r", "e", "s", "=", "8", "0", "0", "x", "6", "0", "0">>

\* The body of fetch_data's try block once urequests.get has acted: exc is
\* TRUE when an exception left the block, ret is the value returned, log the
\* lines printed.
try_body(resp) ==
    IF resp.kind = "raise"
    THEN [exc |-> TRUE, ret |-> None, log |-> <<>>]
    ELSE IF resp.status = HTTP_OK
         THEN IF resp.body.parses
              THEN [exc |-> FALSE, ret |-> Some(resp.body.json), log |-> <<>>]
              ELSE [exc |-> TRUE, ret |-> None, log |-> <<>>]
         ELSE [exc |-> FALSE, ret |-> None,
               log |-> << <<"Error: Status code", resp.status>> >>]

\* fetch_data without its `except Exception` clause: what leaves the try
\* block leaves the function.
fetch_data_no_except(resp) ==
    LET r == try_body(resp)
    IN [raised |-> r.exc, ret |-> r.ret, log |-> r.log]

\* fetch_data from the caller's side: `except Exception` catches whatever
\* left the try block, prints, and falls through to `return None`.
fetch_data(resp) ==
    LET r == try_body(resp)
    IN IF r.exc
       THEN [raised |-> FALSE, ret |-> None, log |-> << <<"Request failed:">> >>]
       ELSE [raised |-> FALSE, ret |-> r.ret, log |-> r.log]

\* The task loop stopping one short: `for task in tasks[:-1]`.
RECURSIVE print_tasks_skip_last(_, _, _)
print_tasks_skip_last(tasks, i, acc) ==
    IF i >= Len(tasks)
    THEN [lines |-> acc, fault |-> FALSE]
    ELSE IF ~Has(tasks[i], "priority") \/ ~Has(tasks[i], "title")
         THEN [lines |-> acc, fault |-> TRUE]
         ELSE print_tasks_skip_last(tasks, i + 1,
                  Append(acc, <<"- [", tasks[i].priority, "] ", tasks[i].title>>))

\* The `for task in data['data']['tasks']` loop from task i on: the lines
\* printed, and whether a KeyError stopped it.
RECURSIVE print_tasks(_, _, _)
print_tasks(tasks, i, acc) ==
    IF i > Len(tasks)
    THEN [lines |-> acc, fault |-> FALSE]
    ELSE IF ~Has(tasks[i], "priority") \/ ~Has(tasks[i], "title")
         THEN [lines |-> acc, fault |-> TRUE]
         ELSE print_tasks(tasks, i + 1,
                  Append(acc, <<"- [", tasks[i].priority, "] ", tasks[i].title>>))

\* display_data with every key guarded: a payload whose `data` lacks an
\* inner key is skipped like one without `data`.
display_data_guarded(d) ==
    IF d = None \/ DOMAIN d[1] = {} \/ ~Has(d[1], "data")
    THEN [lines |-> <<>>, fault |-> FALSE]
    ELSE LET dd == d[1].data
         IN IF \/ ~Has(dd, "workspace")
               \/ ~Has(dd, "tasks")
               \/ \E i \in 1..Len(dd.tasks) :
                     ~Has(dd.tasks[i], "priority") \/ ~Has(dd.tasks[i], "title")
            THEN [lines |-> <<>>, fault |-> FALSE]
            ELSE [lines |-> << <<"--- E-Ink Update ---">>,
                               <<"Workspace:", dd.workspace>>, <<"Tasks:">> >>
                            \o [i \in 1..Len(dd.tasks) |->
                                  <<"- [", dd.tasks[i].priority, "] ", dd.tasks[i].title>>]
                            \o << <<"--------------------">> >>,
                  fault |-> FALSE]

\* display_data(data): the lines it prints and whether it raised.
display_data(d) ==
    IF d = None \/ DOMAIN d[1] = {} \/ ~Has(d[1], "data")
    THEN [lines |-> <<>>, fault |-> FALSE]
    ELSE LET dd == d[1].data
             l1 == << <<"--- E-Ink Update ---">> >>
         IN IF ~Has(dd, "workspace")
            THEN [lines |-> l1, fault |-> TRUE]
            ELSE LET l2 == l1 \o << <<"Workspace:", dd.workspace>>, <<"Tasks:">> >>
                 IN IF ~Has(dd, "tasks")
                    THEN [lines |-> l2, fault |-> TRUE]
                    ELSE LET r == print_tasks(dd.tasks, 1, l2)
                         IN IF r.fault
                            THEN r
                            ELSE [lines |-> Append(r.lines, <<"--------------------">>),
                                  fault |-> FALSE]

\* The lookup done on the payload itself instead of on its `config`:
\* data.get('refresh_interval', 1800).
refresh_of_top_level(p) ==
    IF Has(p, "refresh_interval") THEN p.refresh_interval ELSE DEFAULT_REFRESH

\* The lookup with a floor under the server's value: max(60, ...).
refresh_of_floor(p) ==
    LET config == IF Has(p, "config") THEN p.config ELSE EmptyDict
        v == IF Has(config, "refresh_interval") THEN config.refresh_interval ELSE DEFAULT_REFRESH
    IN IF v < 60 THEN 60 ELSE v

\* data.get('config', {}).get('refresh_interval', 1800) on a payload p.
refresh_of(p) ==
    LET config == IF Has(p, "config") THEN p.config ELSE EmptyDict
    IN IF Has(config, "refresh_interval") THEN config.refresh_interval ELSE DEFAULT_REFRESH

\* -------------------------------------------------------------- state
VARIABLES
    pc,                 \* where main() is
    wlan_active,        \* the station interface has been activated
    wlan_connected,     \* what wlan.isconnected() would answer now
    connect_wifi_calls, \* invocations of connect_wifi so far
    wlan_connect_calls, \* invocations of wlan.connect so far
    polls,              \* time.sleep(1) rounds of the association wait (saturating)
    bat,                \* main's local `bat`
    request,            \* URL of the latest urequests.get, <<>> before the first
    inflight,           \* requests issued and not yet returned
    resp,               \* what the latest urequests.get did
    data,               \* main's local `data`: None or Some(payload)
    wait_time,          \* main's local `wait_time`: unbound (<<>>) or <<seconds>>
    out,                \* console lines printed since the current iteration began
    fault,              \* the uncaught exception that ended the process, "" if none
    iter,               \* iteration number (saturating)
    trace,              \* steps the current iteration has performed
    absent_seen,        \* some fetch has returned None
    slept,              \* seconds the latest completed time.sleep(wait_time) took, <<>> if none
    prev_rendered       \* the iteration before the current one printed a task list

vars == <<pc, wlan_active, wlan_connected, connect_wifi_calls, wlan_connect_calls,
          polls, bat, request, inflight, resp, data, wait_time, out, fault, iter,
          trace, absent_seen, slept, prev_rendered>>

wlan_vars == <<wlan_active, wlan_connected, connect_wifi_calls, wlan_connect_calls, polls>>
loop_vars == <<bat, request, inflight, resp, data, wait_time, fault, iter, trace, absent_seen,
               slept, prev_rendered>>

\* The process has just started: nothing has run.  The radio may still hold
\* an association from before a soft reset.
Init ==
    /\ pc = "boot"
    /\ wlan_connected \in BOOLEAN
    /\ wlan_active = wlan_connected
    /\ connect_wifi_calls = 0
    /\ wlan_connect_calls = 0
    /\ polls = 0
    /\ bat = 0
    /\ request = <<>>
    /\ inflight = 0
    /\ resp = NoResponse
    /\ data = None
    /\ wait_time = <<>>
    /\ out = <<>>
    /\ fault = ""
    /\ iter = 0
    /\ trace = <<>>
    /\ absent_seen = FALSE
    /\ slept = <<>>
    /\ prev_rendered = FALSE

\* ------------------------------------------------------- environment
\* The radio associates (only an active interface can).
WlanUp ==
    /\ wlan_active /\ ~wlan_connected
    /\ wlan_connected' = TRUE
    /\ UNCHANGED <<pc, wlan_active, connect_wifi_calls, wlan_connect_calls, polls, out>>
    /\ UNCHANGED loop_vars

\* The association is lost.
WlanDown ==
    /\ wlan_connected
    /\ wlan_connected' = FALSE
    /\ UNCHANGED <<pc, wlan_active, connect_wifi_calls, wlan_connect_calls, polls, out>>
    /\ UNCHANGED loop_vars

\* ------------------------------------------------------ connect_wifi
\* main() calls connect_wifi(); it creates the station object and activates it.
ConnectWifiEnter ==
    /\ pc = "boot"
    /\ pc' = "wifi_check"
    /\ connect_wifi_calls' = connect_wifi_calls + 1
    /\ wlan_active' = TRUE
    /\ UNCHANGED <<wlan_connected, wlan_connect_calls, polls, out>>
    /\ UNCHANGED loop_vars

\* `if not wlan.isconnected()`: taken, so print and wlan.connect(...).
ConnectWifiInitiate ==
    /\ pc = "wifi_check"
    /\ ~wlan_connected
    /\ pc' = "wifi_wait"
    /\ wlan_connect_calls' = wlan_connect_calls + 1
    /\ out' = Append(out, <<"Connecting to WiFi...">>)
    /\ UNCHANGED <<wlan_active, wlan_connected, connect_wifi_calls, polls>>
    /\ UNCHANGED loop_vars

\* `if not wlan.isconnected()`: not taken.
ConnectWifiAlready ==
    /\ pc = "wifi_check"
    /\ wlan_connected
    /\ pc' = "wifi_done"
    /\ UNCHANGED <<wlan_active, wlan_connected, connect_wifi_calls, wlan_connect_calls, polls, out>>
    /\ UNCHANGED loop_vars

\* The association wait with a bounded retry: after MaxPolls rounds it gives
\* up and lets connect_wifi return.
ConnectWifiPoll_timeout ==
    /\ pc = "wifi_wait"
    /\ ~wlan_connected
    /\ polls' = Sat(polls, MaxPolls)
    /\ pc' = IF polls = MaxPolls THEN "wifi_done" ELSE pc
    /\ UNCHANGED <<wlan_active, wlan_connected, connect_wifi_calls, wlan_connect_calls, out>>
    /\ UNCHANGED loop_vars

\* `while not wlan.isconnected(): time.sleep(1)`: one more round.
ConnectWifiPoll ==
    /\ pc = "wifi_wait"
    /\ ~wlan_connected
    /\ polls' = Sat(polls, MaxPolls)
    /\ UNCHANGED <<pc, wlan_active, wlan_connected, connect_wifi_calls, wlan_connect_calls, out>>
    /\ UNCHANGED loop_vars

\* `while not wlan.isconnected()`: the loop ends.
ConnectWifiAssociated ==
    /\ pc = "wifi_wait"
    /\ wlan_connected
    /\ pc' = "wifi_done"
    /\ UNCHANGED <<wlan_active, wlan_connected, connect_wifi_calls, wlan_connect_calls, polls, out>>
    /\ UNCHANGED loop_vars

\* print("WiFi connected:", ...) and return to main.
ConnectWifiReturn ==
    /\ pc = "wifi_done"
    /\ pc' = "loop"
    /\ out' = Append(out, <<"WiFi connected:">>)
    /\ UNCHANGED wlan_vars
    /\ UNCHANGED loop_vars

\* --------------------------------------------------------- main loop
\* The loop top with a reconnect: `if not wlan.isconnected(): wlan.connect(...)`.
ReadBattery_reconnect ==
    /\ pc = "loop"
    /\ pc' = "fetch"
    /\ bat' = get_battery
    /\ iter' = Sat(iter, MaxIter)
    /\ trace' = <<"battery">>
    /\ out' = <<>>
    /\ wlan_connect_calls' = IF wlan_connected THEN wlan_connect_calls ELSE wlan_connect_calls + 1
    /\ UNCHANGED <<wlan_active, wlan_connected, connect_wifi_calls, polls>>
    /\ prev_rendered' = (\E i \in 1..Len(out) : out[i] = <<"--- E-Ink Update ---">>)
    /\ UNCHANGED <<request, inflight, resp, data, wait_time, fault, absent_seen, slept>>

\* `bat = get_battery()` at the top of `while True`.
ReadBattery ==
    /\ pc = "loop"
    /\ pc' = "fetch"
    /\ bat' = get_battery
    /\ iter' = Sat(iter, MaxIter)
    /\ trace' = <<"battery">>
    /\ out' = <<>>
    /\ UNCHANGED wlan_vars
    /\ prev_rendered' = (\E i \in 1..Len(out) : out[i] = <<"--- E-Ink Update ---">>)
    /\ UNCHANGED <<request, inflight, resp, data, wait_time, fault, absent_seen, slept>>

\* fetch_data(bat) builds the URL and calls urequests.get, which blocks.
IssueRequest ==
    /\ pc = "fetch"
    /\ pc' = "awaiting"
    /\ request' = request_url(bat)
    /\ inflight' = inflight + 1
    /\ trace' = Append(trace, "get")
    /\ UNCHANGED wlan_vars
    /\ UNCHANGED <<bat, resp, data, wait_time, out, fault, iter, absent_seen, slept,
                   prev_rendered>>

\* fetch_data with a retry: on absence it goes back and requests again.
FetchReturn_retry(r) ==
    /\ pc = "awaiting"
    /\ r.kind = "http" => wlan_connected
    /\ LET f == fetch_data(r)
       IN /\ resp' = r
          /\ inflight' = inflight - 1
          /\ out' = out \o f.log
          /\ pc' = IF f.ret = None THEN "fetch" ELSE "render"
          /\ data' = f.ret
          /\ absent_seen' = (absent_seen \/ f.ret = None)
          /\ UNCHANGED fault
    /\ UNCHANGED wlan_vars
    /\ UNCHANGED <<bat, request, wait_time, iter, trace, slept, prev_rendered>>

\* urequests.get stops blocking (it raises or returns r) and fetch_data runs
\* to its end.  An HTTP response needs the association; a transport error
\* needs nothing.
FetchReturn(r) ==
    /\ pc = "awaiting"
    /\ r.kind = "http" => wlan_connected
    /\ LET f == fetch_data(r)
       IN /\ resp' = r
          /\ inflight' = inflight - 1
          /\ out' = out \o f.log
          /\ IF f.raised
             THEN /\ pc' = "crashed"
                  /\ fault' = "fetch_data"
                  /\ UNCHANGED <<data, absent_seen>>
             ELSE /\ pc' = "render"
                  /\ data' = f.ret
                  /\ absent_seen' = (absent_seen \/ f.ret = None)
                  /\ UNCHANGED fault
    /\ UNCHANGED wlan_vars
    /\ UNCHANGED <<bat, request, wait_time, iter, trace, slept, prev_rendered>>

\* display_data(data): prints, and either returns or raises out of main.
Render ==
    /\ pc = "render"
    /\ LET d == display_data(data)
       IN /\ out' = out \o d.lines
          /\ IF d.fault
             THEN pc' = "crashed" /\ fault' = "display_data"
             ELSE pc' = "lookup" /\ UNCHANGED fault
    /\ trace' = Append(trace, "render")
    /\ UNCHANGED wlan_vars
    /\ UNCHANGED <<bat, request, inflight, resp, data, wait_time, iter, absent_seen, slept,
                   prev_rendered>>

\* The lookup guarded against None: `(data or {}).get('config', {})...`.
LookupAndSleep_fallback ==
    /\ pc = "lookup"
    /\ pc' = "sleeping"
    /\ LET w == IF data = None THEN DEFAULT_REFRESH ELSE refresh_of(data[1])
       IN /\ wait_time' = Some(w)
          /\ out' = Append(out, <<"Sleeping for", w>>)
    /\ trace' = Append(trace, "sleep")
    /\ UNCHANGED wlan_vars
    /\ UNCHANGED <<bat, request, inflight, resp, data, fault, iter, absent_seen, slept,
                   prev_rendered>>

\* The lookup defaulting to the previous interval once there is one:
\* `.get('refresh_interval', wait_time)`.
LookupAndSleep_sticky ==
    /\ pc = "lookup"
    /\ IF data = None
       THEN /\ pc' = "crashed"
            /\ fault' = "wait_time"
            /\ UNCHANGED <<wait_time, out, trace>>
       ELSE LET config == IF Has(data[1], "config") THEN data[1].config ELSE EmptyDict
                w == IF Has(config, "refresh_interval") THEN config.refresh_interval
                     ELSE IF wait_time = <<>> THEN DEFAULT_REFRESH ELSE wait_time[1]
            IN /\ pc' = "sleeping"
               /\ wait_time' = Some(w)
               /\ out' = Append(out, <<"Sleeping for", w>>)
               /\ trace' = Append(trace, "sleep")
               /\ UNCHANGED fault
    /\ UNCHANGED wlan_vars
    /\ UNCHANGED <<bat, request, inflight, resp, data, iter, absent_seen, slept, prev_rendered>>

\* `wait_time = data.get('config', {}).get('refresh_interval', 1800)`, the
\* print, and the call of time.sleep(wait_time).  None has no .get.
LookupAndSleep ==
    /\ pc = "lookup"
    /\ IF data = None
       THEN /\ pc' = "crashed"
            /\ fault' = "wait_time"
            /\ UNCHANGED <<wait_time, out, trace>>
       ELSE /\ pc' = "sleeping"
            /\ wait_time' = Some(refresh_of(data[1]))
            /\ out' = Append(out, <<"Sleeping for", refresh_of(data[1])>>)
            /\ trace' = Append(trace, "sleep")
            /\ UNCHANGED fault
    /\ UNCHANGED wlan_vars
    /\ UNCHANGED <<bat, request, inflight, resp, data, iter, absent_seen, slept, prev_rendered>>

\* The loop as a single pass: main returns after the sleep.
Wake_exit ==
    /\ pc = "sleeping"
    /\ pc' = "exit"
    /\ slept' = wait_time
    /\ UNCHANGED wlan_vars
    /\ UNCHANGED <<bat, request, inflight, resp, data, wait_time, out, fault, iter,
                   trace, absent_seen, prev_rendered>>

\* time.sleep(wait_time) returns, wait_time seconds after it was called;
\* `while True` goes round.
Wake ==
    /\ pc = "sleeping"
    /\ pc' = "loop"
    /\ slept' = wait_time
    /\ UNCHANGED wlan_vars
    /\ UNCHANGED <<bat, request, inflight, resp, data, wait_time, out, fault, iter,
                   trace, absent_seen, prev_rendered>>

\* ------------------------------------------------------ specification
\* The interpreter's own steps had the GET a timeout,
\* urequests.get(url, timeout=...): the wait would end by itself, raising.
ProgramStep_timeout ==
    \/ ConnectWifiEnter
    \/ ConnectWifiInitiate
    \/ ConnectWifiAlready
    \/ ConnectWifiPoll
    \/ ConnectWifiAssociated
    \/ ConnectWifiReturn
    \/ ReadBattery
    \/ IssueRequest
    \/ FetchReturn([kind |-> "raise"])
    \/ Render
    \/ LookupAndSleep

\* The steps the interpreter takes by itself, without waiting on anything.
ProgramStep ==
    \/ ConnectWifiEnter
    \/ ConnectWifiInitiate
    \/ ConnectWifiAlready
    \/ ConnectWifiPoll
    \/ ConnectWifiAssociated
    \/ ConnectWifiReturn
    \/ ReadBattery
    \/ IssueRequest
    \/ Render
    \/ LookupAndSleep

Next ==
    \/ WlanUp
    \/ WlanDown
    \/ ConnectWifiEnter
    \/ ConnectWifiInitiate
    \/ ConnectWifiAlready
    \/ ConnectWifiPoll
    \/ ConnectWifiAssociated
    \/ ConnectWifiReturn
    \/ ReadBattery
    \/ IssueRequest
    \/ \E r \in Responses : FetchReturn(r)
    \/ Render
    \/ LookupAndSleep
    \/ Wake

Spec == Init /\ [][Next]_vars

\* The interpreter keeps running: a step it can take, it takes.  Nothing is
\* assumed of the radio, of the server, or of how long a sleep lasts.
LiveSpec == Spec /\ WF_vars(ProgramStep)

\* time.sleep(0) returns at once: no time has to pass for it.
ZeroSleepReturns == pc = "sleeping" /\ wait_time = <<0>> /\ Wake

\* The interpreter keeps running, and a sleep of zero seconds is no wait.
PollSpec == LiveSpec /\ WF_vars(ZeroSleepReturns)

\* fetch_data called on its own with any battery level of the documented
\* range, to examine the request it builds.
BatteryLevels == 0..100

HarnessInit ==
    /\ pc = "fetch_data_call"
    /\ bat \in BatteryLevels
    /\ wlan_connected = TRUE
    /\ wlan_active = TRUE
    /\ connect_wifi_calls = 0
    /\ wlan_connect_calls = 0
    /\ polls = 0
    /\ request = <<>>
    /\ inflight = 0
    /\ resp = NoResponse
    /\ data = None
    /\ wait_time = <<>>
    /\ out = <<>>
    /\ fault = ""
    /\ iter = 0
    /\ trace = <<>>
    /\ absent_seen = FALSE
    /\ slept = <<>>
    /\ prev_rendered = FALSE

\* fetch_data(bat) up to its urequests.get.
FetchDataCall ==
    /\ pc = "fetch_data_call"
    /\ pc' = "fetch_data_get"
    /\ request' = request_url(bat)
    /\ inflight' = inflight + 1
    /\ UNCHANGED wlan_vars
    /\ UNCHANGED <<bat, resp, data, wait_time, out, fault, iter, trace, absent_seen, slept,
                   prev_rendered>>

FetchNext == Next \/ FetchDataCall

\* The program as it runs, together with fetch_data applied to each level.
FetchSpec == (Init \/ HarnessInit) /\ [][FetchNext]_vars

TypeOK ==
    /\ pc \in {"boot", "wifi_check", "wifi_wait", "wifi_done", "loop", "fetch",
               "awaiting", "render", "lookup", "sleeping", "crashed", "exit",
               "fetch_data_call", "fetch_data_get"}
    /\ data \in {None} \cup {Some(p) : p \in Payloads}
    /\ inflight \in 0..1

\* ------------------------------------------------------------- claims

\* C1: fetch_data collapses every outcome to payload or absence and never
\* raises.  Whatever urequests.get did, main's `data` is the parsed body when
\* the status was 200 and the body parsed, and None when the status was not
\* 200, when the transport raised, or when parsing raised; and the process
\* is never ended by an exception coming out of fetch_data.
C1_FetchCollapses ==
    /\ fault # "fetch_data"
    /\ resp.kind = "raise" => data = None
    /\ resp.kind = "http" =>
         /\ resp.status # 200 => data = None
         /\ (resp.status = 200 /\ ~resp.body.parses) => data = None
         /\ (resp.status = 200 /\ resp.body.parses) => data = <<resp.body.json>>

\* A fetch whose transport raised has returned to main.
C1_Witness ==
    /\ pc = "render"
    /\ resp.kind = "raise"
    /\ data = None
    /\ out = << <<"Request failed:">> >>

\* Absence, state by state and step by step.
C2_AbsenceInv ==
    absent_seen =>
        /\ data = None
        /\ pc \in {"render", "lookup", "crashed"}
        /\ inflight = 0
        /\ pc = "crashed" => fault = "wait_time"
        /\ \A i \in 1..Len(out) : out[i][1] \notin {"Sleeping for", "--- E-Ink Update ---"}

C2_AbsenceStep ==
    (absent_seen /\ absent_seen') => UNCHANGED <<request, inflight, iter, wait_time>>

C3_SleepInv ==
    pc = "sleeping" =>
        /\ data # None
        /\ LET p == data[1]
               present == "config" \in DOMAIN p /\ "refresh_interval" \in DOMAIN p.config
           IN /\ present => wait_time = <<p.config.refresh_interval>>
              /\ ~present => wait_time = <<1800>>
              /\ out[Len(out)] = <<"Sleeping for", wait_time[1]>>

C3_LookupStep ==
    (pc = "lookup" /\ pc' # pc /\ data # None) => pc' = "sleeping"

\* C3: whenever main is in time.sleep after a fetch that returned a payload,
\* the duration it passed is the payload's config.refresh_interval when that
\* field is present and 1800 when `config` or `refresh_interval` is absent,
\* rendered or not; and the lookup on a payload always gets to the sleep.
C3_SleepDuration ==
    /\ []C3_SleepInv
    /\ [][C3_LookupStep]_vars

\* Nothing was rendered (no `data` key) and the server's 60 s is slept.
C3_Witness ==
    /\ pc = "sleeping"
    /\ data # None
    /\ ~Has(data[1], "data")
    /\ wait_time = <<60>>
    /\ Len(out) = 1

\* Where main() is inside connect_wifi, and where it is inside the loop.
InConnectWifi == pc \in {"wifi_check", "wifi_wait", "wifi_done"}
InLoop == pc \in {"loop", "fetch", "awaiting", "render", "lookup", "sleeping"}

\* connect_wifi's calls, state by state and step by step.
C4_ConnectInv ==
    /\ pc = "boot" => connect_wifi_calls = 0
    /\ pc # "boot" => connect_wifi_calls = 1
    /\ (pc = "boot" \/ InConnectWifi) => (request = <<>> /\ inflight = 0 /\ iter = 0)

C4_ConnectStep ==
    /\ (pc' = "wifi_done" /\ pc # "wifi_done") => wlan_connected
    /\ (pc' = "loop" /\ ~InLoop) => pc = "wifi_done"
    /\ (InLoop \/ pc = "crashed") =>
         /\ connect_wifi_calls' = connect_wifi_calls
         /\ wlan_connect_calls' = wlan_connect_calls
         /\ ~InConnectWifi'

\* C4: connect_wifi is invoked exactly once, before the loop; no request has
\* been issued while connect_wifi has not returned, and it returns only from
\* the point reached by seeing the station associated; once the loop runs,
\* neither connect_wifi nor wlan.connect is invoked again, whatever the
\* association does.
C4_ConnectOnce == []C4_ConnectInv /\ [][C4_ConnectStep]_vars

\* The association was lost mid-loop; the second iteration's request went
\* out regardless and no reconnection was attempted.
C4_Witness ==
    /\ pc = "awaiting"
    /\ iter = 2
    /\ ~wlan_connected
    /\ wlan_connect_calls = 0
    /\ connect_wifi_calls = 1

\* A fetch that came back with a payload the renderer and the lookup accept.
WellFormedFetch ==
    /\ data # None
    /\ Has(data[1], "data") =>
         /\ Has(data[1].data, "workspace")
         /\ Has(data[1].data, "tasks")
         /\ \A i \in 1..Len(data[1].data.tasks) :
               Has(data[1].data.tasks[i], "priority") /\ Has(data[1].data.tasks[i], "title")

\* No exit, and what the run must grant for the loop to go round.
C6_NoExit ==
    /\ pc # "exit"
    /\ pc \notin {"crashed", "awaiting", "sleeping"} => ENABLED ProgramStep

C6_Hypotheses ==
    /\ []<>(pc # "awaiting")
    /\ []<>(pc # "sleeping")
    /\ [](pc \in {"render", "lookup"} => WellFormedFetch)

\* C6: the loop has no terminal state.  main never returns; whenever the
\* process is neither crashed nor blocked in the request or in a sleep, the
\* interpreter has a step to take; and along any run in which every fetch
\* returns, returns a well-formed payload, and every sleep completes, each
\* Sleeping is followed by Fetching again, so Fetching recurs infinitely often.
C6_LoopForever ==
    /\ []C6_NoExit
    /\ C6_Hypotheses => [](pc = "sleeping" => <>(pc = "awaiting"))
    /\ C6_Hypotheses => (<>(pc = "sleeping") => []<>(pc = "awaiting"))

\* The loop has gone round: a second request is out after a sleep of 0 s.
C6_Witness ==
    /\ pc = "awaiting"
    /\ iter = 2
    /\ WellFormedFetch
    /\ wait_time = <<0>>

\* What a step inside connect_wifi may do.
C7_WaitStep ==
    /\ (pc' = "wifi_done" /\ pc # "wifi_done") => wlan_connected
    /\ (InConnectWifi /\ pc' # pc) => (InConnectWifi' \/ (pc = "wifi_done" /\ pc' = "loop"))
    /\ (pc = "wifi_check" /\ wlan_connected /\ pc' # pc) =>
         (pc' = "wifi_done" /\ wlan_connect_calls' = wlan_connect_calls)
    /\ (pc = "wifi_wait" /\ ~wlan_connected /\ wlan_connected' = wlan_connected) =>
         pc' = "wifi_wait"

\* C7: connect_wifi has no failure path.  It leaves its wait only on seeing
\* the station associated and it never faults; already associated, it
\* returns without calling wlan.connect; if the station becomes and stays
\* associated it returns; and if the station is never associated it never
\* returns and no request is ever issued.
C7_NoFailurePath ==
    /\ [][C7_WaitStep]_vars
    /\ <>[]wlan_connected => <>(pc = "loop")
    /\ [](~wlan_connected) => [](pc \in {"boot", "wifi_check", "wifi_wait"} /\ request = <<>>)

\* connect_wifi has returned after waiting through every counted poll round.
C7_Witness ==
    /\ pc = "loop"
    /\ iter = 0
    /\ wlan_connect_calls = 1
    /\ polls = MaxPolls

\* The lines display_data prints for a complete `data` mapping dd.
TaskLine(task) == <<"- [", task.priority, "] ", task.title>>
ExpectedRender(dd) ==
    << <<"--- E-Ink Update ---">>, <<"Workspace:", dd.workspace>>, <<"Tasks:">> >>
    \o [i \in 1..Len(dd.tasks) |-> TaskLine(dd.tasks[i])]
    \o << <<"--------------------">> >>
IsTaskLine(line) == line[1] = "- ["

\* The `data` mapping dd lacks a key display_data reads.
MissingInner(dd) ==
    \/ ~Has(dd, "workspace")
    \/ ~Has(dd, "tasks")
    \/ \E i \in 1..Len(dd.tasks) : ~Has(dd.tasks[i], "priority") \/ ~Has(dd.tasks[i], "title")

\* What one display_data call appends to the console.
C5_RenderStep ==
    (pc = "render" /\ pc' # pc) =>
        IF data = None \/ ~Has(data[1], "data")
        THEN out' = out /\ pc' = "lookup" /\ fault' = ""
        ELSE ~MissingInner(data[1].data) =>
               LET printed == SubSeq(out', Len(out) + 1, Len(out'))
                   tasks == data[1].data.tasks
               IN /\ SubSeq(out', 1, Len(out)) = out
                  /\ printed[1] = <<"--- E-Ink Update ---">>
                  /\ printed[2] = <<"Workspace:", data[1].data.workspace>>
                  /\ SelectSeq(printed, IsTaskLine) = [i \in 1..Len(tasks) |-> TaskLine(tasks[i])]
                  /\ printed = ExpectedRender(data[1].data)
                  /\ pc' = "lookup" /\ fault' = ""

\* C5: a display_data call on None or on a payload without a `data` key
\* prints nothing and raises nothing; on a payload whose `data` has the keys
\* the interface promises it prints the banner first, the workspace second,
\* and as its task lines exactly `- [priority] title` of every task, in the
\* payload's order, none dropped, duplicated or reordered.
C5_RenderOutput == [][C5_RenderStep]_vars

\* As many distinct tasks as the bound allows have been rendered, in order.
C5_Witness ==
    /\ pc = "lookup"
    /\ data # None
    /\ Has(data[1], "data")
    /\ ~MissingInner(data[1].data)
    /\ Len(data[1].data.tasks) = MaxTasks
    /\ data[1].data.tasks[1] # data[1].data.tasks[2]
    /\ out = ExpectedRender(data[1].data)

\* What a server reads off a URL: the part before "?", and the name=value
\* pairs between the "&" after it.
RECURSIVE IndexOf(_, _, _)
IndexOf(s, ch, i) ==
    IF i > Len(s) THEN 0 ELSE IF s[i] = ch THEN i ELSE IndexOf(s, ch, i + 1)

RECURSIVE Split(_, _)
Split(s, ch) ==
    LET i == IndexOf(s, ch, 1)
    IN IF i = 0 THEN <<s>> ELSE <<SubSeq(s, 1, i - 1)>> \o Split(SubSeq(s, i + 1, Len(s)), ch)

NameValue(s) ==
    LET i == IndexOf(s, "=", 1)
    IN IF i = 0 THEN <<s, <<>>>> ELSE <<SubSeq(s, 1, i - 1), SubSeq(s, i + 1, Len(s))>>

ParseUrl(url) ==
    LET i == IndexOf(url, "?", 1)
        fields == Split(SubSeq(url, i + 1, Len(url)), "&")
    IN [base |-> SubSeq(url, 1, i - 1),
        params |-> [k \in 1..Len(fields) |-> NameValue(fields[k])]]

DigitValue(c) == CHOOSE d \in 0..9 : Digit(d) = c

RECURSIVE ParseInt(_)
ParseInt(s) ==
    IF Len(s) = 0 THEN 0 ELSE 10 * ParseInt(SubSeq(s, 1, Len(s) - 1)) + DigitValue(s[Len(s)])

\* C8: every request fetch_data(b) builds, for b in 0..100, is the configured
\* base URL followed by exactly three query parameters: token = the
\* configured device token, bat = b in decimal, res = 800x600; and every
\* request the main loop issues carries bat=85.
C8_RequestParams ==
    request # <<>> =>
        LET q == ParseUrl(request)
        IN /\ q.base = <<"h", "t", "t", "p", ":", "/", "/", "Y", "O", "U", "R", "_", "L", "O", "C", "A", "L", "_", "I", "P", ":", "8", "0", "8", "0", "/", "a", "p", "i", "/", "e", "i", "n", "k", "/", "r", "e", "l", "e", "v", "a", "n", "t">>
           /\ Len(q.params) = 3
           /\ q.params[1] = << <<"t", "o", "k", "e", "n">>, DEVICE_TOKEN >>
           /\ q.params[2][1] = <<"b", "a", "t">>
           /\ \A k \in 1..Len(q.params[2][2]) : q.params[2][2][k] \in {Digit(d) : d \in 0..9}
           /\ ParseInt(q.params[2][2]) = bat
           /\ q.params[3] = << <<"r", "e", "s">>, <<"8", "0", "0", "x", "6", "0", "0">> >>
           /\ pc \notin {"fetch_data_call", "fetch_data_get"} => ParseInt(q.params[2][2]) = 85

\* fetch_data(100) has built its request: a three-digit level.
C8_Witness ==
    /\ pc = "fetch_data_get"
    /\ bat = 100
    /\ ParseUrl(request).params[2] = << <<"b", "a", "t">>, <<"1", "0", "0">> >>

\* The steps of one iteration, in the order main performs them.
IterationSteps == <<"battery", "get", "render", "sleep">>

\* The order of an iteration, state by state and step by step.
C9_SequenceInv ==
    /\ inflight \in 0..1
    /\ inflight = 1 <=> pc = "awaiting"
    /\ Len(trace) <= 4
    /\ trace = SubSeq(IterationSteps, 1, Len(trace))
    /\ pc = "fetch" => trace = <<"battery">>
    /\ pc \in {"awaiting", "render"} => trace = <<"battery", "get">>
    /\ pc = "lookup" => trace = <<"battery", "get", "render">>
    /\ pc \in {"sleeping", "loop"} /\ iter > 0 => trace = IterationSteps

C9_SequenceStep ==
    /\ inflight' > inflight => (inflight = 0 /\ trace = <<"battery">>)
    /\ (trace' # trace /\ trace' = <<"battery">>) =>
         /\ pc = "loop"
         /\ inflight = 0
         /\ trace = <<>> \/ (trace = IterationSteps /\ resp.kind # "none" /\ data # None)
    /\ (pc' = "loop" /\ pc # "loop" /\ InLoop) => pc = "sleeping"

\* C9: an iteration is battery read, one GET, render, sleep, in that order
\* and each at most once; at most one request is in flight; a request is
\* issued only as the first thing after the battery read, and an iteration
\* begins only at boot or after the previous one has got its response,
\* rendered and finished its sleep; a failed request is not retried.
C9_StrictSequence == []C9_SequenceInv /\ [][C9_SequenceStep]_vars

\* The second iteration has run all four steps.
C9_Witness ==
    /\ pc = "sleeping"
    /\ iter = 2
    /\ trace = IterationSteps
    /\ inflight = 0

\* What the render step and the steps after it may do.
C10_RenderFaultStep ==
    /\ (pc = "render" /\ pc' # pc /\ data # None /\ Has(data[1], "data")) =>
         IF MissingInner(data[1].data)
         THEN pc' = "crashed" /\ fault' = "display_data"
         ELSE pc' = "lookup" /\ fault' = ""
    /\ (pc = "render" /\ pc' # pc /\ data # None /\ ~Has(data[1], "data")) =>
         (pc' = "lookup" /\ fault' = "" /\ out' = out)
    /\ (pc = "lookup" /\ pc' # pc /\ data # None /\ ~Has(data[1], "data")) =>
         (pc' = "sleeping" /\ fault' = "")
    /\ pc = "crashed" => UNCHANGED <<pc, request, inflight, iter, wait_time, trace, out>>

C10_CrashedInv ==
    (pc = "crashed" /\ fault = "display_data") =>
        /\ data # None /\ Has(data[1], "data") /\ MissingInner(data[1].data)
        /\ trace = <<"battery", "get", "render">>
        /\ inflight = 0

\* C10: rendering a payload that has `data` but lacks workspace, tasks, or a
\* task's priority or title raises out of main: the process is crashed in
\* that step, and a crashed process never sleeps or requests again; a payload
\* without `data` prints nothing, raises nothing, and goes on to the sleep.
C10_RenderFault == []C10_CrashedInv /\ [][C10_RenderFaultStep]_vars

\* The fault came at the second task, after the first had been printed.
C10_Witness ==
    /\ pc = "crashed"
    /\ fault = "display_data"
    /\ Len(out) = 4
    /\ IsTaskLine(out[4])
    /\ Len(data[1].data.tasks) = 2

\* Blocked in the GET: nothing the interpreter can do, and nothing moves but
\* the radio until urequests.get stops blocking.
C11_FetchingInv ==
    pc = "awaiting" =>
        /\ ~ENABLED ProgramStep
        /\ inflight = 1
        /\ fault = ""

C11_FetchingStep ==
    (pc = "awaiting" /\ inflight' = inflight) =>
        /\ pc' = "awaiting"
        /\ UNCHANGED <<bat, request, resp, data, wait_time, out, fault, iter, trace,
                       absent_seen, connect_wifi_calls, wlan_connect_calls>>

\* C11: the request has no timeout.  While urequests.get has not returned
\* the interpreter has no step of its own and the process stays in Fetching
\* with nothing rendered, slept, faulted or requested; so if an issued GET
\* never returns the process is in Fetching for ever, its interpreter running
\* or not, and no later iteration begins.
C11_NoTimeout ==
    /\ []C11_FetchingInv
    /\ [][C11_FetchingStep]_vars
    /\ <>[](inflight = 1) => <>[](pc = "awaiting" /\ fault = "" /\ ~ENABLED ProgramStep)

\* The server took the first request and has not answered: the association
\* is up, nothing has been printed, nothing was ever fetched.
C11_Witness ==
    /\ pc = "awaiting"
    /\ iter = 1
    /\ wlan_connected
    /\ inflight = 1
    /\ resp = NoResponse
    /\ out = <<>>
    /\ trace = <<"battery", "get">>

\* What the response r of an iteration alone says the iteration shows and
\* sleeps: the payload it carries (if any), the lines to print for it, the
\* seconds to sleep after it.
CarriesPayload(r) == r.kind = "http" /\ r.status = 200 /\ r.body.parses
RenderedFor(r) ==
    IF CarriesPayload(r) /\ Has(r.body.json, "data")
    THEN ExpectedRender(r.body.json.data)
    ELSE <<>>
SleepFor(r) ==
    IF Has(r.body.json, "config") /\ Has(r.body.json.config, "refresh_interval")
    THEN r.body.json.config.refresh_interval
    ELSE 1800

\* C12: no poll response outlives its iteration.  What has been printed once
\* the render is done, and the seconds passed to time.sleep, are determined
\* by the response of the same iteration alone: a payload without `config`
\* sleeps 1800 s also right after a sleep of v seconds, and a payload without
\* `data` prints nothing also right after an iteration that printed tasks.
C12_NoCarryOver ==
    /\ pc = "lookup" =>
         /\ LET printed == SelectSeq(out, LAMBDA l : l[1] \notin {"Error: Status code", "Request failed:"})
            IN printed = RenderedFor(resp)
         /\ (CarriesPayload(resp) /\ ~Has(resp.body.json, "data")) => out = <<>>
    /\ pc = "sleeping" =>
         /\ CarriesPayload(resp)
         /\ wait_time = <<SleepFor(resp)>>
         /\ out = Append(RenderedFor(resp), <<"Sleeping for", SleepFor(resp)>>)
         /\ ~Has(resp.body.json, "config") => wait_time = <<1800>>

\* The first iteration printed a task list and slept 60 s; the second got a
\* payload with neither `data` nor `config`: nothing printed, 1800 s.
C12_Witness ==
    /\ pc = "sleeping"
    /\ iter = 2
    /\ slept = <<60>>
    /\ prev_rendered
    /\ data = <<EmptyDict>>
    /\ wait_time = <<1800>>
    /\ out = << <<"Sleeping for", 1800>> >>

\* The payload p names a refresh interval.
NamesInterval(p) == Has(p, "config") /\ Has(p.config, "refresh_interval")

\* The value handed to time.sleep is the server's, whatever it is; and the
\* sleep before the request that is next or under way lasted exactly as long
\* as the payload still held in `data` said.
C13_UnvalidatedInv ==
    /\ (pc = "sleeping" /\ NamesInterval(data[1])) =>
         /\ wait_time = <<data[1].config.refresh_interval>>
         /\ out[Len(out)] = <<"Sleeping for", data[1].config.refresh_interval>>
    /\ (pc \in {"loop", "fetch", "awaiting"} /\ slept # <<>>) =>
         /\ data # None
         /\ slept = wait_time
         /\ NamesInterval(data[1]) => slept = <<data[1].config.refresh_interval>>
         /\ (NamesInterval(data[1]) /\ data[1].config.refresh_interval = 0) => slept = <<0>>

\* Every fetch returns, and returns a well-formed payload naming interval 0.
C13_ServerAlwaysZero ==
    /\ []<>(pc # "awaiting")
    /\ [](pc \in {"render", "lookup"} =>
            (WellFormedFetch /\ NamesInterval(data[1]) /\ data[1].config.refresh_interval = 0))

\* C13: the server's refresh interval is used unvalidated.  The seconds
\* passed to time.sleep are exactly the payload's config.refresh_interval,
\* be it 0 or a day, never pulled towards 1800; after a payload with
\* interval 0 the next request follows a sleep of 0 seconds; and with a
\* server that always answers 0 every sleep is of 0 seconds and requests go
\* out again and again for ever, no sleep needing time to pass.
C13_Unvalidated ==
    /\ []C13_UnvalidatedInv
    /\ C13_ServerAlwaysZero => [](slept \in {<<>>, <<0>>})
    /\ C13_ServerAlwaysZero => [](pc = "sleeping" => <>(pc = "awaiting"))
    /\ C13_ServerAlwaysZero => (<>(pc = "render") => []<>(pc = "awaiting"))

\* A request went out after a sleep of 0 seconds, and its answer now has the
\* process sleep a day.
C13_Witness ==
    /\ pc = "sleeping"
    /\ iter = 2
    /\ slept = <<0>>
    /\ wait_time = <<86400>>
    /\ data[1].config.refresh_interval = 86400

====
